---- MODULE Spec2Model ----
(***************************************************************************)
(* Model of CSVStreamingManager (src/streaming_data_manager.py): the       *)
(* watchdog observer thread and the polling streaming_loop thread both     *)
(* call _handle_file_change on one manager; the main thread subscribes,    *)
(* unsubscribes, starts and stops; the environment rewrites the CSV file.  *)
(***************************************************************************)
EXTENDS Integers, Sequences, FiniteSets, TLC

\* ---------------------------------------------------------------- bounds
MaxVersions == 1   \* number of rewrites of the source file
MaxSubs == 2       \* length of the subscribers list
MaxLoops == 2      \* number of streaming_loop threads alive at one time

\* ------------------------------------------------------ program constants
LowThreshold == 10
OutOfStockLevel == 0

expected_columns ==
  << "Date", "Store ID", "Product ID", "Category", "Region",
     "Inventory Level", "Units Sold", "Units Ordered", "Demand Forecast",
     "Price", "Discount", "Weather Condition", "Holiday/Promotion",
     "Competitor Pricing", "Seasonality" >>

\* ------------------------------------------------------------- data sets
Range(s) == {s[i] : i \in 1..Len(s)}

\* the Inventory Level column of the tables the file may hold: no row
\* (header only), one row out of stock and one low, one row well stocked
RowChoices == { <<>>, <<0, 5>>, <<50>> }

AllColumns == Range(expected_columns)

\* what the source file can hold: a well-formed table with every expected
\* column, a well-formed table without Price, or text that does not parse
ValidContents ==
  {[parses |-> TRUE, cols |-> AllColumns, rows |-> r] : r \in RowChoices}

NoPriceContent ==
  [parses |-> TRUE, cols |-> AllColumns \ {"Price"}, rows |-> <<5>>]

MalformedContent == [parses |-> FALSE, cols |-> {}, rows |-> <<>>]

Contents == ValidContents \cup {NoPriceContent, MalformedContent}

\* a source of 5 rows, two of them out of stock and one more low
SeedRows == <<0, 5, 50, 0, 20>>

\* the callbacks the main thread may register; "a" raises on every call
Callbacks == {"a", "b"}
AlwaysRaises == {"a"}
NoCallback == "none"

Lanes == {"poll", "watch"}

\* the three servers start_monitoring starts, the two that push snapshots
\* to each connected peer, the connections and the Socket.IO clients
Transports == {"websocket", "socketio", "fastapi"}
PushTransports == {"websocket", "fastapi"}
Peers == {"p1", "p2"}
SioClients == {"s1"}
NoTransport == "none"
ActivePcs == {"first", "loop", "sleep"}

\* None of last_modified (mtimes are 0, 1, 2, ...)
NoneTime == -1

\* changes before _calculate_changes has run in a lane
NoChanges == [type |-> "none"]

HandlerPcs ==
  {"load", "stat", "store", "calc", "commit", "notify", "broadcast", "ret"}

VARIABLES
  fileVer,          \* st_mtime of the source file (one tick per rewrite)
  fileContent,      \* what the source file holds now
  allValid,         \* history: every version of the file so far was valid
  srcPathMatches,   \* event.src_path == str(csv_path) for this csv_path
  observing,        \* the watchdog observer is started and not stopped
  pendingEvents,    \* modification events queued for the observer thread
  started,          \* start_monitoring has been called
  is_running,
  last_modified,
  last_data,        \* <<>> is None, <<df>> a DataFrame
  subscribers,
  pc,               \* per lane: position in its loop or in the handler
  current_modified, \* streaming_loop's local
  new_data,         \* per lane: _handle_file_change's local (<<>> or <<df>>)
  st_mtime,         \* per lane: the value stat() returned, not yet stored
  changes,          \* per lane: _handle_file_change's local
  idx,              \* per lane: position of the for loop over subscribers
  invoked,          \* per lane: calls made by the dispatch of this run
  startSubs,        \* per lane: subscribers when the dispatch began
  subsChanged,      \* per lane: subscribers was modified during the dispatch
  broadcasted,      \* per lane: _broadcast_data has run in this run
  calcPrev,         \* per lane: last_data as _calculate_changes read it
  outcome,          \* per lane: how the current run of the handler went
  calcCount,        \* history: _calculate_changes evaluations per version
  registered,       \* history: subscribe calls less effective unsubscribes
  hasRaised,        \* history: callbacks that raised in a finished dispatch
  redis_client,     \* TRUE when the embedding program has assigned a client
  kafka_producer,   \* TRUE when the embedding program has assigned a producer
  cacheWrite,       \* per lane: redis_client.setex of this run
  logPublish,       \* per lane: kafka_producer.send of this run
  available,        \* the source file exists and stat and read succeed
  failedAt,         \* history: the file's mtime when the loop's stat raised
  portFree,         \* per transport: its port can be bound on this host
  serverState,      \* per transport: "off", "listening" or "failed"
  peerPc,           \* per peer: position of its push loop
  peerTransport,    \* per peer: the push transport it connected to
  peerMsg,          \* per peer: the last message it received (<<>>: none)
  peerEarly,        \* history: the peer connected before any commit
  sentAfterFailure, \* history: a send succeeded after another peer's failed
  httpResponse,     \* the last response of GET /data (<<>>: none yet)
  lastCommitted,    \* history: the snapshot of the latest commit
  firstCommitted,   \* history: the snapshot of the first commit
  sioConnected,     \* Socket.IO clients connected to the server
  sioEmitted,       \* payloads the Socket.IO server has emitted
  startReturned,    \* what the last start_monitoring returned (<<>>: none)
  loopThreads,      \* streaming_loop threads started and not yet returned
  readResult        \* what the last get_latest_data returned (<<>>: none)

vars ==
  << fileVer, fileContent, allValid, srcPathMatches, observing,
     pendingEvents, started, is_running, last_modified, last_data,
     subscribers, pc, current_modified, new_data, st_mtime, changes, idx,
     invoked,
     startSubs, subsChanged, broadcasted, calcPrev, outcome, calcCount,
     registered, hasRaised, redis_client, kafka_producer, cacheWrite,
     logPublish, available, failedAt, portFree, serverState, peerPc,
     peerTransport, peerMsg, peerEarly, sentAfterFailure, httpResponse,
     lastCommitted, firstCommitted, sioConnected, sioEmitted,
     startReturned, loopThreads, readResult >>

fileVars == << fileVer, fileContent, allValid, srcPathMatches >>
dispatchVars == << idx, invoked, startSubs, subsChanged >>
localVars ==
  << current_modified, new_data, st_mtime, changes, broadcasted, calcPrev,
     outcome >>
histVars == << calcCount >>
regVars == << registered, hasRaised >>
sinkVars == << redis_client, kafka_producer, cacheWrite, logPublish >>

ioVars == << available, failedAt >>

serverVars == << portFree, serverState >>
peerVars == << peerPc, peerTransport, peerMsg, peerEarly, sentAfterFailure >>
commitVars == << lastCommitted, firstCommitted >>
sioVars == << sioConnected, sioEmitted >>
netVars == << serverVars, peerVars, httpResponse, commitVars, sioVars >>
callVars == << startReturned, loopThreads, readResult >>

\* how a call on a downstream client ends; "none" is a call not made
CallOutcomes == {"ok", "raised"}

IsValidContent(c) == c.parses /\ AllColumns \subseteq c.cols

\* ------------------------------------------------------- pure functions
\* pd.read_csv: the DataFrame of a well-formed file
read_csv(ver, content) ==
  [ver |-> ver, cols |-> content.cols, rows |-> content.rows]

\* any(...) in place of all(...)
validate_columns_any(df) ==
  \E i \in 1..Len(expected_columns) : expected_columns[i] \in df.cols

validate_columns(df) ==
  \A i \in 1..Len(expected_columns) : expected_columns[i] \in df.cols

\* len(df[df['Inventory Level'] < bound]) and len(df[... == level])
CountBelow(rows, bound) == Cardinality({i \in 1..Len(rows) : rows[i] < bound})
CountEqual(rows, level) == Cardinality({i \in 1..Len(rows) : rows[i] = level})

\* the indicators counted over self.last_data in place of new_data
calculate_changes_over_previous(df, prev) ==
  IF prev = <<>>
  THEN [type |-> "initial_load", rows |-> Len(df.rows)]
  ELSE [type |-> "update", total_rows |-> Len(df.rows),
        inventory_changes |->
          IF "Inventory Level" \in df.cols
             /\ "Inventory Level" \in prev[1].cols
          THEN << [low_stock |-> CountBelow(prev[1].rows, LowThreshold),
                   out_of_stock |->
                     CountEqual(prev[1].rows, OutOfStockLevel)] >>
          ELSE <<>>]

\* the two counts stored under each other's key
calculate_changes_swapped(df, prev) ==
  IF prev = <<>>
  THEN [type |-> "initial_load", rows |-> Len(df.rows)]
  ELSE [type |-> "update", total_rows |-> Len(df.rows),
        inventory_changes |->
          IF "Inventory Level" \in df.cols
             /\ "Inventory Level" \in prev[1].cols
          THEN << [low_stock |-> CountEqual(df.rows, OutOfStockLevel),
                   out_of_stock |-> CountBelow(df.rows, LowThreshold)] >>
          ELSE <<>>]

calculate_changes(df, prev) ==
  IF prev = <<>>
  THEN [type |-> "initial_load", rows |-> Len(df.rows)]
  ELSE [type |-> "update", total_rows |-> Len(df.rows),
        inventory_changes |->
          IF "Inventory Level" \in df.cols
             /\ "Inventory Level" \in prev[1].cols
          THEN << [low_stock |-> CountBelow(df.rows, LowThreshold),
                   out_of_stock |-> CountEqual(df.rows, OutOfStockLevel)] >>
          ELSE <<>>]

\* DataFrame.to_dict(orient='records'): one record per row, keyed by column
to_dict(df) ==
  [i \in 1..Len(df.rows) |-> [columns |-> df.cols, level |-> df.rows[i]]]

\* DataFrame.to_json(orient='records', date_format='iso'): the text of the
\* same records
to_json(df) == [text |-> to_dict(df)]

\* GET /data with a truth test on the rows in place of "is not None"
http_get_data_nonempty(data) ==
  IF data # <<>> /\ data[1].rows # <<>>
  THEN [timestamp |-> "now", data |-> to_dict(data[1])]
  ELSE [error |-> "No data available"]

\* the body of the GET /data route; "now" stands for datetime.now()
http_get_data(data) ==
  IF data # <<>>
  THEN [timestamp |-> "now", data |-> to_dict(data[1])]
  ELSE [error |-> "No data available"]

\* list.remove(callback) when callback in list: drops the first occurrence
RECURSIVE RemoveFirst(_, _)
RemoveFirst(s, cb) ==
  IF s = <<>> THEN <<>>
  ELSE IF Head(s) = cb THEN Tail(s)
  ELSE <<Head(s)>> \o RemoveFirst(Tail(s), cb)

unsubscribe_list(s, cb) == IF cb \in Range(s) THEN RemoveFirst(s, cb) ELSE s

get_latest_data == last_data

\* self.websocket_server, self.socketio_server and self.fastapi_app are None
\* after __init__; the first start_monitoring that finds the file binds them
\* to the server thread, the socketio.Server and the FastAPI application,
\* and no statement resets them
server_attribute_set(t) == started

get_server_status == [t \in Transports |-> server_attribute_set(t)]

\* the history of an unsubscribe(cb) call: one registration of cb less
Unregister(reg, cb) ==
  IF cb \in Callbacks /\ reg[cb] > 0 THEN [reg EXCEPT ![cb] = @ - 1] ELSE reg

\* lanes whose for loop over subscribers is running see the list change
MarkChanged(newSubs) ==
  [l \in Lanes |->
     IF pc[l] = "notify" /\ newSubs # subscribers THEN TRUE ELSE subsChanged[l]]

\* ----------------------------------------------------------------- Init
\* no server is started, nobody is connected, nothing was committed
Unconnected ==
  /\ serverState = [t \in Transports |-> "off"]
  /\ peerPc = [p \in Peers |-> "none"]
  /\ peerTransport = [p \in Peers |-> NoTransport]
  /\ peerMsg = [p \in Peers |-> <<>>]
  /\ peerEarly = [p \in Peers |-> FALSE]
  /\ sentAfterFailure = FALSE
  /\ httpResponse = <<>>
  /\ lastCommitted = <<>>
  /\ firstCommitted = <<>>
  /\ sioConnected = {}
  /\ sioEmitted = {}
  /\ startReturned = <<>>
  /\ loopThreads = 0
  /\ readResult = <<>>

\* __init__, and the lanes and histories before anything has run
Constructed ==
  /\ fileVer = 0
  /\ observing = FALSE
  /\ pendingEvents = 0
  /\ started = FALSE
  /\ is_running = FALSE
  /\ last_modified = NoneTime
  /\ last_data = <<>>
  /\ subscribers = <<>>
  /\ pc = [l \in Lanes |-> "off"]
  /\ current_modified = NoneTime
  /\ new_data = [l \in Lanes |-> <<>>]
  /\ st_mtime = [l \in Lanes |-> NoneTime]
  /\ changes = [l \in Lanes |-> NoChanges]
  /\ idx = [l \in Lanes |-> 0]
  /\ invoked = [l \in Lanes |-> <<>>]
  /\ startSubs = [l \in Lanes |-> <<>>]
  /\ subsChanged = [l \in Lanes |-> FALSE]
  /\ broadcasted = [l \in Lanes |-> FALSE]
  /\ calcPrev = [l \in Lanes |-> <<>>]
  /\ outcome = [l \in Lanes |-> "none"]
  /\ calcCount = [v \in 0..MaxVersions |-> 0]
  /\ registered = [cb \in Callbacks |-> 0]
  /\ hasRaised = {}
  /\ redis_client = FALSE
  /\ kafka_producer = FALSE
  /\ cacheWrite = [l \in Lanes |-> "none"]
  /\ logPublish = [l \in Lanes |-> "none"]
  /\ available = TRUE
  /\ failedAt = NoneTime
  /\ Unconnected

Init ==
  /\ portFree = [t \in Transports |-> TRUE]
  /\ fileVer = 0
  /\ fileContent \in Contents
  /\ allValid = IsValidContent(fileContent)
  /\ srcPathMatches = TRUE
  /\ observing = FALSE
  /\ pendingEvents = 0
  /\ started = FALSE
  /\ is_running = FALSE
  /\ last_modified = NoneTime
  /\ last_data = <<>>
  /\ subscribers = <<>>
  /\ pc = [l \in Lanes |-> "off"]
  /\ current_modified = NoneTime
  /\ new_data = [l \in Lanes |-> <<>>]
  /\ st_mtime = [l \in Lanes |-> NoneTime]
  /\ changes = [l \in Lanes |-> NoChanges]
  /\ idx = [l \in Lanes |-> 0]
  /\ invoked = [l \in Lanes |-> <<>>]
  /\ startSubs = [l \in Lanes |-> <<>>]
  /\ subsChanged = [l \in Lanes |-> FALSE]
  /\ broadcasted = [l \in Lanes |-> FALSE]
  /\ calcPrev = [l \in Lanes |-> <<>>]
  /\ outcome = [l \in Lanes |-> "none"]
  /\ calcCount = [v \in 0..MaxVersions |-> 0]
  /\ registered = [cb \in Callbacks |-> 0]
  /\ hasRaised = {}
  /\ redis_client = FALSE
  /\ kafka_producer = FALSE
  /\ cacheWrite = [l \in Lanes |-> "none"]
  /\ logPublish = [l \in Lanes |-> "none"]
  /\ available = TRUE
  /\ failedAt = NoneTime
  /\ Unconnected

\* ------------------------------------------------------- the environment
\* the generator (or anyone) rewrites the file; the observer, when started,
\* queues one modification event for its thread
Rewrite(c) ==
  /\ fileVer < MaxVersions
  /\ fileContent' = c
  /\ allValid' = (allValid /\ IsValidContent(c))
  /\ fileVer' = fileVer + 1
  /\ pendingEvents' = IF observing THEN pendingEvents + 1 ELSE pendingEvents
  /\ available' = TRUE
  /\ UNCHANGED failedAt
  /\ UNCHANGED << srcPathMatches, observing, started, is_running,
                  last_modified, last_data, subscribers, pc >>
  /\ UNCHANGED << dispatchVars, localVars, histVars >>
  /\ UNCHANGED regVars
  /\ UNCHANGED sinkVars
  /\ UNCHANGED netVars
  /\ UNCHANGED callVars

\* the file is removed, locked, or its device fails; later it is back as
\* it was (a rewrite brings it back too)
MakeUnavailable ==
  /\ available
  /\ available' = FALSE
  /\ UNCHANGED failedAt
  /\ UNCHANGED << fileVars, observing, pendingEvents, started, is_running,
                  last_modified, last_data, subscribers, pc >>
  /\ UNCHANGED << dispatchVars, localVars, histVars >>
  /\ UNCHANGED regVars
  /\ UNCHANGED sinkVars
  /\ UNCHANGED netVars
  /\ UNCHANGED callVars

MakeAvailable ==
  /\ ~available
  /\ available' = TRUE
  /\ UNCHANGED failedAt
  /\ UNCHANGED << fileVars, observing, pendingEvents, started, is_running,
                  last_modified, last_data, subscribers, pc >>
  /\ UNCHANGED << dispatchVars, localVars, histVars >>
  /\ UNCHANGED regVars
  /\ UNCHANGED sinkVars
  /\ UNCHANGED netVars
  /\ UNCHANGED callVars

\* ------------------------------------------------------- the main thread
\* a server that cannot bind makes the whole start fail
start_monitoring_abort ==
  /\ ~started
  /\ IF available /\ \A t \in Transports : portFree[t]
     THEN /\ started' = TRUE
          /\ is_running' = TRUE
          /\ observing' = TRUE
          /\ pc' = [l \in Lanes |-> IF l = "poll" THEN "loop" ELSE "wait"]
          /\ serverState' = [t \in Transports |-> "listening"]
          /\ loopThreads' = loopThreads + 1
          /\ startReturned' = <<TRUE>>
     ELSE /\ startReturned' = <<FALSE>>
          /\ UNCHANGED << started, is_running, observing, pc, serverState,
                          loopThreads >>
  /\ UNCHANGED readResult
  /\ UNCHANGED << portFree, peerVars, httpResponse, commitVars, sioVars >>
  /\ UNCHANGED << fileVars, pendingEvents, last_modified, last_data,
                  subscribers >>
  /\ UNCHANGED << dispatchVars, localVars, histVars >>
  /\ UNCHANGED regVars
  /\ UNCHANGED sinkVars
  /\ UNCHANGED ioVars

\* is_running set before the test of csv_path.exists()
start_monitoring_flag_first ==
  /\ ~started
  /\ is_running' = TRUE
  /\ IF available
     THEN /\ started' = TRUE
          /\ observing' = TRUE
          /\ pc' = [l \in Lanes |-> IF l = "poll" THEN "loop" ELSE "wait"]
          /\ serverState' =
               [t \in Transports |->
                  IF portFree[t] THEN "listening" ELSE "failed"]
          /\ loopThreads' = loopThreads + 1
          /\ startReturned' = <<TRUE>>
     ELSE /\ startReturned' = <<FALSE>>
          /\ UNCHANGED << started, observing, pc, serverState, loopThreads >>
  /\ UNCHANGED readResult
  /\ UNCHANGED << portFree, peerVars, httpResponse, commitVars, sioVars >>
  /\ UNCHANGED << fileVars, pendingEvents, last_modified, last_data,
                  subscribers >>
  /\ UNCHANGED << dispatchVars, localVars, histVars >>
  /\ UNCHANGED regVars
  /\ UNCHANGED sinkVars
  /\ UNCHANGED ioVars

\* The first call on a manager.  Without the file it logs and returns
\* False.  Otherwise it sets is_running, starts the observer, the three
\* server threads and the streaming_loop thread, and returns True; each
\* server thread binds its port: where the port is taken the thread logs
\* the error and ends, elsewhere it serves from then on.
start_monitoring ==
  /\ ~started
  /\ IF available
     THEN /\ started' = TRUE
          /\ is_running' = TRUE
          /\ observing' = TRUE
          /\ pc' = [l \in Lanes |-> IF l = "poll" THEN "loop" ELSE "wait"]
          /\ serverState' =
               [t \in Transports |->
                  IF portFree[t] THEN "listening" ELSE "failed"]
          /\ loopThreads' = loopThreads + 1
          /\ startReturned' = <<TRUE>>
     ELSE /\ startReturned' = <<FALSE>>
          /\ UNCHANGED << started, is_running, observing, pc, serverState,
                          loopThreads >>
  /\ UNCHANGED readResult
  /\ UNCHANGED << portFree, peerVars, httpResponse, commitVars, sioVars >>
  /\ UNCHANGED << fileVars, pendingEvents, last_modified, last_data,
                  subscribers >>
  /\ UNCHANGED << dispatchVars, localVars, histVars >>
  /\ UNCHANGED regVars
  /\ UNCHANGED sinkVars
  /\ UNCHANGED ioVars

\* A further call on a manager that was started before, stopped or not:
\* with the file present nothing tells it from the first call.  It sets
\* is_running, starts an observer, starts the three server threads again
\* (a port the manager's earlier thread serves cannot be bound, so that
\* thread goes on serving and the new one ends; self.socketio_server is a
\* new server object, which no client is connected to) and starts one
\* more streaming_loop thread.  The steps of the model's polling lane are
\* those of the oldest loop thread alive.
start_monitoring_again ==
  /\ started
  /\ loopThreads < MaxLoops
  /\ IF available
     THEN /\ is_running' = TRUE
          /\ observing' = TRUE
          /\ pc' = [pc EXCEPT !["poll"] = IF @ = "exited" THEN "loop" ELSE @]
          /\ loopThreads' = loopThreads + 1
          /\ sioConnected' = {}
          /\ startReturned' = <<TRUE>>
     ELSE /\ startReturned' = <<FALSE>>
          /\ UNCHANGED << is_running, observing, pc, loopThreads,
                          sioConnected >>
  /\ UNCHANGED << started, readResult, sioEmitted >>
  /\ UNCHANGED << serverVars, peerVars, httpResponse, commitVars >>
  /\ UNCHANGED << fileVars, pendingEvents, last_modified, last_data,
                  subscribers >>
  /\ UNCHANGED << dispatchVars, localVars, histVars >>
  /\ UNCHANGED regVars
  /\ UNCHANGED sinkVars
  /\ UNCHANGED ioVars

\* observer.stop() drops what is queued; a handler in progress finishes
stop_monitoring ==
  /\ started
  /\ is_running
  /\ is_running' = FALSE
  /\ observing' = FALSE
  /\ pendingEvents' = 0
  /\ UNCHANGED << fileVars, started, last_modified, last_data,
                  subscribers, pc >>
  /\ UNCHANGED << dispatchVars, localVars, histVars >>
  /\ UNCHANGED regVars
  /\ UNCHANGED sinkVars
  /\ UNCHANGED ioVars
  /\ UNCHANGED netVars
  /\ UNCHANGED callVars

subscribe(cb) ==
  /\ Len(subscribers) < MaxSubs
  /\ subscribers' = Append(subscribers, cb)
  /\ subsChanged' = MarkChanged(subscribers')
  /\ registered' = [registered EXCEPT ![cb] = @ + 1]
  /\ UNCHANGED hasRaised
  /\ UNCHANGED << fileVars, observing, pendingEvents, started, is_running,
                  last_modified, last_data, pc, idx, invoked, startSubs >>
  /\ UNCHANGED << localVars, histVars >>
  /\ UNCHANGED sinkVars
  /\ UNCHANGED ioVars
  /\ UNCHANGED netVars
  /\ UNCHANGED callVars

unsubscribe(cb) ==
  /\ subscribers' = unsubscribe_list(subscribers, cb)
  /\ subsChanged' = MarkChanged(subscribers')
  /\ registered' = Unregister(registered, cb)
  /\ UNCHANGED hasRaised
  /\ UNCHANGED << fileVars, observing, pendingEvents, started, is_running,
                  last_modified, last_data, pc, idx, invoked, startSubs >>
  /\ UNCHANGED << localVars, histVars >>
  /\ UNCHANGED sinkVars
  /\ UNCHANGED ioVars
  /\ UNCHANGED netVars
  /\ UNCHANGED callVars

\* the embedding program sets the cache client and the event-log producer
\* on the manager it has built, before it starts it
configure_clients(r, k) ==
  /\ ~started
  /\ ~redis_client /\ ~kafka_producer
  /\ r \/ k
  /\ redis_client' = r
  /\ kafka_producer' = k
  /\ UNCHANGED << cacheWrite, logPublish >>
  /\ UNCHANGED << fileVars, observing, pendingEvents, started, is_running,
                  last_modified, last_data, subscribers, pc >>
  /\ UNCHANGED << dispatchVars, localVars, histVars >>
  /\ UNCHANGED regVars
  /\ UNCHANGED ioVars
  /\ UNCHANGED netVars
  /\ UNCHANGED callVars

\* ------------------------------------------------ the polling loop thread
\* while self.is_running: current_modified = self.csv_path.stat().st_mtime
\* A thread that finds is_running false returns; the lane then follows the
\* next loop thread alive, if there is one.
PollStat ==
  /\ pc["poll"] = "loop"
  /\ IF is_running
     THEN IF available
          THEN /\ current_modified' = fileVer
               /\ pc' = [pc EXCEPT !["poll"] = "compare"]
               /\ UNCHANGED << failedAt, loopThreads >>
          ELSE /\ pc' = [pc EXCEPT !["poll"] = "backoff"]
               /\ failedAt' = fileVer
               /\ UNCHANGED << current_modified, loopThreads >>
     ELSE /\ pc' = [pc EXCEPT !["poll"] =
                    IF loopThreads > 1 THEN "loop" ELSE "exited"]
          /\ loopThreads' = loopThreads - 1
          /\ UNCHANGED << current_modified, failedAt >>
  /\ UNCHANGED << fileVars, observing, pendingEvents, started, is_running,
                  last_modified, last_data, subscribers, new_data, st_mtime,
                  changes, broadcasted, calcPrev, outcome >>
  /\ UNCHANGED << dispatchVars, histVars >>
  /\ UNCHANGED regVars
  /\ UNCHANGED sinkVars
  /\ UNCHANGED available
  /\ UNCHANGED netVars
  /\ UNCHANGED << startReturned, readResult >>

\* the try in place of the loop, so that the except ends the loop
PollBackoff_exit ==
  /\ pc["poll"] = "backoff"
  /\ pc' = [pc EXCEPT !["poll"] = "exited"]
  /\ UNCHANGED << fileVars, observing, pendingEvents, started, is_running,
                  last_modified, last_data, subscribers >>
  /\ UNCHANGED << dispatchVars, localVars, histVars >>
  /\ UNCHANGED regVars
  /\ UNCHANGED sinkVars
  /\ UNCHANGED ioVars
  /\ UNCHANGED netVars
  /\ UNCHANGED callVars

\* except Exception: logger.error(...); time.sleep(5); then the while test
PollBackoff ==
  /\ pc["poll"] = "backoff"
  /\ pc' = [pc EXCEPT !["poll"] = "loop"]
  /\ UNCHANGED << fileVars, observing, pendingEvents, started, is_running,
                  last_modified, last_data, subscribers >>
  /\ UNCHANGED << dispatchVars, localVars, histVars >>
  /\ UNCHANGED regVars
  /\ UNCHANGED sinkVars
  /\ UNCHANGED ioVars
  /\ UNCHANGED netVars
  /\ UNCHANGED callVars

\* if self.last_modified is None or current_modified > self.last_modified:
\*     self._handle_file_change()
\* time.sleep(1)
PollCompare ==
  /\ pc["poll"] = "compare"
  /\ pc' = [pc EXCEPT !["poll"] =
              IF last_modified = NoneTime \/ current_modified > last_modified
              THEN "load" ELSE "loop"]
  /\ current_modified' = NoneTime
  /\ UNCHANGED << fileVars, observing, pendingEvents, started, is_running,
                  last_modified, last_data, subscribers, new_data, st_mtime,
                  changes, broadcasted, calcPrev, outcome >>
  /\ UNCHANGED << dispatchVars, histVars >>
  /\ UNCHANGED regVars
  /\ UNCHANGED sinkVars
  /\ UNCHANGED ioVars
  /\ UNCHANGED netVars
  /\ UNCHANGED callVars

\* ---------------------------------------------------- the observer thread
\* CSVFileHandler.on_modified, one queued event at a time
on_modified ==
  /\ pc["watch"] = "wait"
  /\ pendingEvents > 0
  /\ pendingEvents' = pendingEvents - 1
  /\ pc' = [pc EXCEPT !["watch"] = IF srcPathMatches THEN "load" ELSE "wait"]
  /\ UNCHANGED << fileVars, observing, started, is_running, last_modified,
                  last_data, subscribers >>
  /\ UNCHANGED << dispatchVars, localVars, histVars >>
  /\ UNCHANGED regVars
  /\ UNCHANGED sinkVars
  /\ UNCHANGED ioVars
  /\ UNCHANGED netVars
  /\ UNCHANGED callVars

\* ------------------------------------------------- _handle_file_change(l)
\* new_data = pd.read_csv(self.csv_path); if not self._validate_columns(..)
HandleLoad(l) ==
  /\ pc[l] = "load"
  /\ IF ~available
     THEN /\ outcome' = [outcome EXCEPT ![l] = "read_error"]
          /\ pc' = [pc EXCEPT ![l] = "ret"]
          /\ UNCHANGED new_data
     ELSE IF ~fileContent.parses
     THEN /\ outcome' = [outcome EXCEPT ![l] = "parse_error"]
          /\ pc' = [pc EXCEPT ![l] = "ret"]
          /\ UNCHANGED new_data
     ELSE /\ IF validate_columns(read_csv(fileVer, fileContent))
             THEN /\ new_data' =
                       [new_data EXCEPT ![l] = <<read_csv(fileVer, fileContent)>>]
                  /\ outcome' = [outcome EXCEPT ![l] = "running"]
                  /\ pc' = [pc EXCEPT ![l] = "stat"]
             ELSE /\ outcome' = [outcome EXCEPT ![l] = "schema_mismatch"]
                  /\ pc' = [pc EXCEPT ![l] = "ret"]
                  /\ UNCHANGED new_data
  /\ UNCHANGED << fileVars, observing, pendingEvents, started, is_running,
                  last_modified, last_data, subscribers, current_modified,
                  st_mtime, changes, broadcasted, calcPrev, calcCount >>
  /\ UNCHANGED dispatchVars
  /\ UNCHANGED regVars
  /\ UNCHANGED sinkVars
  /\ UNCHANGED ioVars
  /\ UNCHANGED netVars
  /\ UNCHANGED callVars

\* self.csv_path.stat().st_mtime, the right-hand side of line 283
HandleStat(l) ==
  /\ pc[l] = "stat"
  /\ IF available
     THEN /\ st_mtime' = [st_mtime EXCEPT ![l] = fileVer]
          /\ pc' = [pc EXCEPT ![l] = "store"]
          /\ UNCHANGED << new_data, outcome >>
     ELSE /\ outcome' = [outcome EXCEPT ![l] = "read_error"]
          /\ new_data' = [new_data EXCEPT ![l] = <<>>]
          /\ pc' = [pc EXCEPT ![l] = "ret"]
          /\ UNCHANGED st_mtime
  /\ UNCHANGED << fileVars, observing, pendingEvents, started, is_running,
                  last_modified, last_data, subscribers, current_modified,
                  changes, broadcasted, calcPrev >>
  /\ UNCHANGED << dispatchVars, histVars >>
  /\ UNCHANGED regVars
  /\ UNCHANGED sinkVars
  /\ UNCHANGED ioVars
  /\ UNCHANGED netVars
  /\ UNCHANGED callVars

\* self.last_modified = <that value>
HandleSetModified(l) ==
  /\ pc[l] = "store"
  /\ last_modified' = st_mtime[l]
  /\ st_mtime' = [st_mtime EXCEPT ![l] = NoneTime]
  /\ pc' = [pc EXCEPT ![l] = "calc"]
  /\ UNCHANGED << fileVars, observing, pendingEvents, started, is_running,
                  last_data, subscribers, current_modified, new_data, changes,
                  broadcasted, calcPrev, outcome >>
  /\ UNCHANGED << dispatchVars, histVars >>
  /\ UNCHANGED regVars
  /\ UNCHANGED sinkVars
  /\ UNCHANGED ioVars
  /\ UNCHANGED netVars
  /\ UNCHANGED callVars

\* changes = self._calculate_changes(new_data)
HandleCalc(l) ==
  /\ pc[l] = "calc"
  /\ changes' = [changes EXCEPT ![l] = calculate_changes(new_data[l][1], last_data)]
  /\ calcPrev' = [calcPrev EXCEPT ![l] = last_data]
  /\ calcCount' = [calcCount EXCEPT ![new_data[l][1].ver] = @ + 1]
  /\ pc' = [pc EXCEPT ![l] = "commit"]
  /\ UNCHANGED << fileVars, observing, pendingEvents, started, is_running,
                  last_modified, last_data, subscribers, current_modified,
                  new_data, st_mtime, broadcasted, outcome >>
  /\ UNCHANGED dispatchVars
  /\ UNCHANGED regVars
  /\ UNCHANGED sinkVars
  /\ UNCHANGED ioVars
  /\ UNCHANGED netVars
  /\ UNCHANGED callVars

\* the snapshot installed field by field: the new table's header is visible
\* with the previous table's rows
HandleCommit_torn(l) ==
  /\ pc[l] = "commit"
  /\ last_data' =
       <<[new_data[l][1] EXCEPT
            !.rows = IF last_data = <<>> THEN <<>> ELSE last_data[1].rows]>>
  /\ lastCommitted' = new_data[l]
  /\ firstCommitted' = IF firstCommitted = <<>> THEN new_data[l]
                       ELSE firstCommitted
  /\ UNCHANGED << serverVars, peerVars, httpResponse, sioVars >>
  /\ pc' = [pc EXCEPT ![l] = "notify"]
  /\ idx' = [idx EXCEPT ![l] = 1]
  /\ invoked' = [invoked EXCEPT ![l] = <<>>]
  /\ startSubs' = [startSubs EXCEPT ![l] = subscribers]
  /\ subsChanged' = [subsChanged EXCEPT ![l] = FALSE]
  /\ UNCHANGED << fileVars, observing, pendingEvents, started, is_running,
                  last_modified, subscribers >>
  /\ UNCHANGED << localVars, histVars >>
  /\ UNCHANGED regVars
  /\ UNCHANGED sinkVars
  /\ UNCHANGED ioVars
  /\ UNCHANGED callVars

\* self.last_data = new_data; then the for loop of _notify_subscribers starts
HandleCommit(l) ==
  /\ pc[l] = "commit"
  /\ last_data' = new_data[l]
  /\ lastCommitted' = new_data[l]
  /\ firstCommitted' = IF firstCommitted = <<>> THEN new_data[l]
                       ELSE firstCommitted
  /\ UNCHANGED << serverVars, peerVars, httpResponse, sioVars >>
  /\ pc' = [pc EXCEPT ![l] = "notify"]
  /\ idx' = [idx EXCEPT ![l] = 1]
  /\ invoked' = [invoked EXCEPT ![l] = <<>>]
  /\ startSubs' = [startSubs EXCEPT ![l] = subscribers]
  /\ subsChanged' = [subsChanged EXCEPT ![l] = FALSE]
  /\ UNCHANGED << fileVars, observing, pendingEvents, started, is_running,
                  last_modified, subscribers >>
  /\ UNCHANGED << localVars, histVars >>
  /\ UNCHANGED regVars
  /\ UNCHANGED sinkVars
  /\ UNCHANGED ioVars
  /\ UNCHANGED callVars

\* the try/except around the whole loop in place of around each call: a
\* raising callback ends the dispatch and _handle_file_change's except
NotifyInvoke_abort(l, u) ==
  /\ pc[l] = "notify"
  /\ idx[l] <= Len(subscribers)
  /\ LET cb == subscribers[idx[l]] IN
       /\ invoked' = [invoked EXCEPT ![l] =
                        Append(@, [cb |-> cb, data |-> new_data[l],
                                   changes |-> changes[l],
                                   raised |-> cb \in AlwaysRaises])]
       /\ pc' = [pc EXCEPT ![l] = IF cb \in AlwaysRaises THEN "ret" ELSE @]
  /\ UNCHANGED hasRaised
  /\ subscribers' = IF u = NoCallback THEN subscribers
                    ELSE unsubscribe_list(subscribers, u)
  /\ registered' = Unregister(registered, u)
  /\ subsChanged' = MarkChanged(subscribers')
  /\ idx' = [idx EXCEPT ![l] = @ + 1]
  /\ UNCHANGED << fileVars, observing, pendingEvents, started, is_running,
                  last_modified, last_data, startSubs >>
  /\ UNCHANGED << localVars, histVars >>
  /\ UNCHANGED sinkVars
  /\ UNCHANGED ioVars
  /\ UNCHANGED netVars
  /\ UNCHANGED callVars

\* a callback that raises is dropped from the list by the except branch
NotifyInvoke_drop(l, u) ==
  /\ pc[l] = "notify"
  /\ idx[l] <= Len(subscribers)
  /\ LET cb == subscribers[idx[l]] IN
       /\ invoked' = [invoked EXCEPT ![l] =
                        Append(@, [cb |-> cb, data |-> new_data[l],
                                   changes |-> changes[l],
                                   raised |-> cb \in AlwaysRaises])]
       /\ subscribers' =
            LET afterCall == IF u = NoCallback THEN subscribers
                             ELSE unsubscribe_list(subscribers, u)
            IN IF cb \in AlwaysRaises THEN unsubscribe_list(afterCall, cb)
               ELSE afterCall
  /\ UNCHANGED hasRaised
  /\ registered' = Unregister(registered, u)
  /\ subsChanged' = MarkChanged(subscribers')
  /\ idx' = [idx EXCEPT ![l] = @ + 1]
  /\ UNCHANGED << fileVars, observing, pendingEvents, started, is_running,
                  last_modified, last_data, pc, startSubs >>
  /\ UNCHANGED << localVars, histVars >>
  /\ UNCHANGED sinkVars
  /\ UNCHANGED ioVars
  /\ UNCHANGED netVars
  /\ UNCHANGED callVars

\* one iteration of: for subscriber in self.subscribers: try: subscriber(
\* data, changes) except Exception: log.  The callback returns or raises;
\* while it runs it calls unsubscribe(u), or nothing when u is NoCallback.
NotifyInvoke(l, u) ==
  /\ pc[l] = "notify"
  /\ idx[l] <= Len(subscribers)
  /\ LET cb == subscribers[idx[l]] IN
       invoked' = [invoked EXCEPT ![l] =
                     Append(@, [cb |-> cb, data |-> new_data[l],
                                changes |-> changes[l],
                                raised |-> cb \in AlwaysRaises])]
  /\ UNCHANGED hasRaised
  /\ subscribers' = IF u = NoCallback THEN subscribers
                    ELSE unsubscribe_list(subscribers, u)
  /\ registered' = Unregister(registered, u)
  /\ subsChanged' = MarkChanged(subscribers')
  /\ idx' = [idx EXCEPT ![l] = @ + 1]
  /\ UNCHANGED << fileVars, observing, pendingEvents, started, is_running,
                  last_modified, last_data, pc, startSubs >>
  /\ UNCHANGED << localVars, histVars >>
  /\ UNCHANGED sinkVars
  /\ UNCHANGED ioVars
  /\ UNCHANGED netVars
  /\ UNCHANGED callVars

\* the for loop finds no further element
NotifyDone(l) ==
  /\ pc[l] = "notify"
  /\ idx[l] > Len(subscribers)
  /\ pc' = [pc EXCEPT ![l] = "broadcast"]
  /\ UNCHANGED << fileVars, observing, pendingEvents, started, is_running,
                  last_modified, last_data, subscribers >>
  /\ UNCHANGED << dispatchVars, localVars, histVars >>
  /\ hasRaised' = hasRaised \cup
       {invoked[l][i].cb : i \in {k \in 1..Len(invoked[l]) : invoked[l][k].raised}}
  /\ UNCHANGED registered
  /\ UNCHANGED sinkVars
  /\ UNCHANGED ioVars
  /\ UNCHANGED netVars
  /\ UNCHANGED callVars

\* the except branch of _broadcast_data restores the previous snapshot
HandleBroadcast_rollback(l) ==
  /\ pc[l] = "broadcast"
  /\ \E r \in CallOutcomes, k \in CallOutcomes :
       LET cache == IF redis_client THEN r ELSE "none"
           log == IF cache = "raised" \/ ~kafka_producer THEN "none" ELSE k
       IN /\ cacheWrite' = [cacheWrite EXCEPT ![l] = cache]
          /\ logPublish' = [logPublish EXCEPT ![l] = log]
          /\ last_data' = IF "raised" \in {cache, log} THEN calcPrev[l]
                          ELSE last_data
  /\ broadcasted' = [broadcasted EXCEPT ![l] = TRUE]
  /\ outcome' = [outcome EXCEPT ![l] = "ok"]
  /\ pc' = [pc EXCEPT ![l] = "ret"]
  /\ UNCHANGED << fileVars, observing, pendingEvents, started, is_running,
                  last_modified, subscribers, current_modified,
                  new_data, st_mtime, changes, calcPrev >>
  /\ UNCHANGED << dispatchVars, histVars >>
  /\ UNCHANGED regVars
  /\ UNCHANGED << redis_client, kafka_producer >>
  /\ UNCHANGED ioVars
  /\ UNCHANGED netVars
  /\ UNCHANGED callVars

\* self._broadcast_data(new_data, changes); logger.info(...).  One try
\* holds the three consumers: data_json for Socket.IO is computed and
\* dropped, then redis_client.setex if a client is set, then
\* kafka_producer.send if a producer is set; a call that raises jumps to
\* the except, which logs
HandleBroadcast(l) ==
  /\ pc[l] = "broadcast"
  /\ \E r \in CallOutcomes, k \in CallOutcomes :
       LET cache == IF redis_client THEN r ELSE "none"
           log == IF cache = "raised" \/ ~kafka_producer THEN "none" ELSE k
       IN /\ cacheWrite' = [cacheWrite EXCEPT ![l] = cache]
          /\ logPublish' = [logPublish EXCEPT ![l] = log]
  /\ broadcasted' = [broadcasted EXCEPT ![l] = TRUE]
  /\ outcome' = [outcome EXCEPT ![l] = "ok"]
  /\ pc' = [pc EXCEPT ![l] = "ret"]
  /\ UNCHANGED << fileVars, observing, pendingEvents, started, is_running,
                  last_modified, last_data, subscribers, current_modified,
                  new_data, st_mtime, changes, calcPrev >>
  /\ UNCHANGED << dispatchVars, histVars >>
  /\ UNCHANGED regVars
  /\ UNCHANGED << redis_client, kafka_producer >>
  /\ UNCHANGED ioVars
  /\ UNCHANGED netVars
  /\ UNCHANGED callVars

\* _handle_file_change returns to its caller: time.sleep(1) and the next
\* iteration of streaming_loop, or the observer thread's next event
HandleReturn(l) ==
  /\ pc[l] = "ret"
  /\ pc' = [pc EXCEPT ![l] = IF l = "poll" THEN "loop" ELSE "wait"]
  /\ new_data' = [new_data EXCEPT ![l] = <<>>]
  /\ changes' = [changes EXCEPT ![l] = NoChanges]
  /\ calcPrev' = [calcPrev EXCEPT ![l] = <<>>]
  /\ broadcasted' = [broadcasted EXCEPT ![l] = FALSE]
  /\ outcome' = [outcome EXCEPT ![l] = "none"]
  /\ idx' = [idx EXCEPT ![l] = 0]
  /\ invoked' = [invoked EXCEPT ![l] = <<>>]
  /\ startSubs' = [startSubs EXCEPT ![l] = <<>>]
  /\ subsChanged' = [subsChanged EXCEPT ![l] = FALSE]
  /\ cacheWrite' = [cacheWrite EXCEPT ![l] = "none"]
  /\ logPublish' = [logPublish EXCEPT ![l] = "none"]
  /\ UNCHANGED << fileVars, observing, pendingEvents, started, is_running,
                  last_modified, last_data, subscribers, current_modified,
                  st_mtime >>
  /\ UNCHANGED histVars
  /\ UNCHANGED regVars
  /\ UNCHANGED << redis_client, kafka_producer >>
  /\ UNCHANGED ioVars
  /\ UNCHANGED netVars
  /\ UNCHANGED callVars

\* ------------------------------------------------- the per-peer push loops
\* a peer connects to the WebSocket server (websocket_handler is called) or
\* to /ws/data (websocket_endpoint accepts it)
PeerConnect(p, t) ==
  /\ serverState[t] = "listening"
  /\ peerPc[p] = "none"
  /\ peerPc' = [peerPc EXCEPT ![p] = "first"]
  /\ peerTransport' = [peerTransport EXCEPT ![p] = t]
  /\ peerEarly' = [peerEarly EXCEPT ![p] = (last_data = <<>>)]
  /\ UNCHANGED << peerMsg, sentAfterFailure >>
  /\ UNCHANGED << serverVars, httpResponse, commitVars, sioVars >>
  /\ UNCHANGED << fileVars, observing, pendingEvents, started, is_running,
                  last_modified, last_data, subscribers, pc >>
  /\ UNCHANGED << dispatchVars, localVars, histVars >>
  /\ UNCHANGED regVars
  /\ UNCHANGED sinkVars
  /\ UNCHANGED ioVars
  /\ UNCHANGED callVars

\* asyncio.sleep(1) at the head of the loop body, before the first send
PeerIterate_sleep_first(p) ==
  /\ peerPc[p] \in {"first", "loop"}
  /\ IF ~is_running
     THEN /\ peerPc' = [peerPc EXCEPT ![p] = "ended"]
          /\ UNCHANGED << peerMsg, sentAfterFailure >>
     ELSE IF last_data # <<>> /\ peerPc[p] = "loop"
     THEN /\ peerMsg' = [peerMsg EXCEPT ![p] = <<to_json(last_data[1])>>]
          /\ sentAfterFailure' =
               (sentAfterFailure \/ \E q \in Peers : peerPc[q] = "failed")
          /\ peerPc' = [peerPc EXCEPT ![p] = "sleep"]
     ELSE /\ peerPc' = [peerPc EXCEPT ![p] = "sleep"]
          /\ UNCHANGED << peerMsg, sentAfterFailure >>
  /\ UNCHANGED << peerTransport, peerEarly >>
  /\ UNCHANGED << serverVars, httpResponse, commitVars, sioVars >>
  /\ UNCHANGED << fileVars, observing, pendingEvents, started, is_running,
                  last_modified, last_data, subscribers, pc >>
  /\ UNCHANGED << dispatchVars, localVars, histVars >>
  /\ UNCHANGED regVars
  /\ UNCHANGED sinkVars
  /\ UNCHANGED ioVars
  /\ UNCHANGED callVars

\* one pass of: while self.is_running: if self.last_data is not None:
\* send(self.last_data.to_json(...)), the send succeeding; then the sleep
\* begins.  When is_running is false the handler returns.
PeerIterate(p) ==
  /\ peerPc[p] \in {"first", "loop"}
  /\ IF ~is_running
     THEN /\ peerPc' = [peerPc EXCEPT ![p] = "ended"]
          /\ UNCHANGED << peerMsg, sentAfterFailure >>
     ELSE IF last_data # <<>>
     THEN /\ peerMsg' = [peerMsg EXCEPT ![p] = <<to_json(last_data[1])>>]
          /\ sentAfterFailure' =
               (sentAfterFailure \/ \E q \in Peers : peerPc[q] = "failed")
          /\ peerPc' = [peerPc EXCEPT ![p] = "sleep"]
     ELSE /\ peerPc' = [peerPc EXCEPT ![p] = "sleep"]
          /\ UNCHANGED << peerMsg, sentAfterFailure >>
  /\ UNCHANGED << peerTransport, peerEarly >>
  /\ UNCHANGED << serverVars, httpResponse, commitVars, sioVars >>
  /\ UNCHANGED << fileVars, observing, pendingEvents, started, is_running,
                  last_modified, last_data, subscribers, pc >>
  /\ UNCHANGED << dispatchVars, localVars, histVars >>
  /\ UNCHANGED regVars
  /\ UNCHANGED sinkVars
  /\ UNCHANGED ioVars
  /\ UNCHANGED callVars

\* the exception of a send ends every push loop of the same transport
PeerSendFails_all(p) ==
  /\ peerPc[p] \in {"first", "loop"}
  /\ is_running
  /\ last_data # <<>>
  /\ peerPc' = [q \in Peers |->
                  IF peerTransport[q] = peerTransport[p]
                     /\ peerPc[q] \in ActivePcs
                  THEN "failed" ELSE peerPc[q]]
  /\ UNCHANGED << peerTransport, peerMsg, peerEarly, sentAfterFailure >>
  /\ UNCHANGED << serverVars, httpResponse, commitVars, sioVars >>
  /\ UNCHANGED << fileVars, observing, pendingEvents, started, is_running,
                  last_modified, last_data, subscribers, pc >>
  /\ UNCHANGED << dispatchVars, localVars, histVars >>
  /\ UNCHANGED regVars
  /\ UNCHANGED sinkVars
  /\ UNCHANGED ioVars
  /\ UNCHANGED callVars

\* the peer has gone: the send raises (ConnectionClosed, or whatever
\* send_text raises), the except of the handler swallows it and the
\* handler returns
PeerSendFails(p) ==
  /\ peerPc[p] \in {"first", "loop"}
  /\ is_running
  /\ last_data # <<>>
  /\ peerPc' = [peerPc EXCEPT ![p] = "failed"]
  /\ UNCHANGED << peerTransport, peerMsg, peerEarly, sentAfterFailure >>
  /\ UNCHANGED << serverVars, httpResponse, commitVars, sioVars >>
  /\ UNCHANGED << fileVars, observing, pendingEvents, started, is_running,
                  last_modified, last_data, subscribers, pc >>
  /\ UNCHANGED << dispatchVars, localVars, histVars >>
  /\ UNCHANGED regVars
  /\ UNCHANGED sinkVars
  /\ UNCHANGED ioVars
  /\ UNCHANGED callVars

\* await asyncio.sleep(1) is over
PeerWake(p) ==
  /\ peerPc[p] = "sleep"
  /\ peerPc' = [peerPc EXCEPT ![p] = "loop"]
  /\ UNCHANGED << peerTransport, peerMsg, peerEarly, sentAfterFailure >>
  /\ UNCHANGED << serverVars, httpResponse, commitVars, sioVars >>
  /\ UNCHANGED << fileVars, observing, pendingEvents, started, is_running,
                  last_modified, last_data, subscribers, pc >>
  /\ UNCHANGED << dispatchVars, localVars, histVars >>
  /\ UNCHANGED regVars
  /\ UNCHANGED sinkVars
  /\ UNCHANGED ioVars
  /\ UNCHANGED callVars

PeerStep(p) == PeerIterate(p) \/ PeerSendFails(p) \/ PeerWake(p)

\* --------------------------------------------------------- the HTTP route
\* a client requests GET /data on the FastAPI server
HttpGetData ==
  /\ serverState["fastapi"] = "listening"
  /\ httpResponse' = <<http_get_data(last_data)>>
  /\ UNCHANGED << serverVars, peerVars, commitVars, sioVars >>
  /\ UNCHANGED << fileVars, observing, pendingEvents, started, is_running,
                  last_modified, last_data, subscribers, pc >>
  /\ UNCHANGED << dispatchVars, localVars, histVars >>
  /\ UNCHANGED regVars
  /\ UNCHANGED sinkVars
  /\ UNCHANGED ioVars
  /\ UNCHANGED callVars

\* a caller on another thread evaluates get_latest_data()
CallGetLatestData ==
  /\ readResult' = <<get_latest_data>>
  /\ UNCHANGED << startReturned, loopThreads >>
  /\ UNCHANGED << fileVars, observing, pendingEvents, started, is_running,
                  last_modified, last_data, subscribers, pc >>
  /\ UNCHANGED << dispatchVars, localVars, histVars >>
  /\ UNCHANGED regVars
  /\ UNCHANGED sinkVars
  /\ UNCHANGED ioVars
  /\ UNCHANGED netVars

\* ------------------------------------------------- the Socket.IO server
\* the connect and disconnect events: the handlers only log
SioConnect(c) ==
  /\ serverState["socketio"] = "listening"
  /\ c \notin sioConnected
  /\ sioConnected' = sioConnected \cup {c}
  /\ UNCHANGED sioEmitted
  /\ UNCHANGED << serverVars, peerVars, httpResponse, commitVars >>
  /\ UNCHANGED << fileVars, observing, pendingEvents, started, is_running,
                  last_modified, last_data, subscribers, pc >>
  /\ UNCHANGED << dispatchVars, localVars, histVars >>
  /\ UNCHANGED regVars
  /\ UNCHANGED sinkVars
  /\ UNCHANGED ioVars
  /\ UNCHANGED callVars

SioDisconnect(c) ==
  /\ c \in sioConnected
  /\ sioConnected' = sioConnected \ {c}
  /\ UNCHANGED sioEmitted
  /\ UNCHANGED << serverVars, peerVars, httpResponse, commitVars >>
  /\ UNCHANGED << fileVars, observing, pendingEvents, started, is_running,
                  last_modified, last_data, subscribers, pc >>
  /\ UNCHANGED << dispatchVars, localVars, histVars >>
  /\ UNCHANGED regVars
  /\ UNCHANGED sinkVars
  /\ UNCHANGED ioVars
  /\ UNCHANGED callVars

\* ------------------------------------------------------------------ Next
\* the client registers its callback and then starts the manager, as the
\* __main__ block does
SubscribeBeforeStart(cb) == ~started /\ subscribers = <<>> /\ subscribe(cb)

HandlerStep(l) ==
  \/ HandleLoad(l)
  \/ HandleStat(l)
  \/ HandleSetModified(l)
  \/ HandleCalc(l)
  \/ HandleCommit(l)
  \/ NotifyDone(l)
  \/ HandleBroadcast(l)
  \/ HandleReturn(l)

\* ingestion: both lanes, any file content, a fixed registration
Next ==
  \/ \E c \in Contents : Rewrite(c)
  \/ start_monitoring
  \/ stop_monitoring
  \/ \E cb \in Callbacks : SubscribeBeforeStart(cb)
  \/ PollStat
  \/ PollCompare
  \/ on_modified
  \/ \E l \in Lanes : HandlerStep(l)
  \/ \E l \in Lanes : NotifyInvoke(l, NoCallback)

Spec == Init /\ [][Next]_vars

\* the subscription registry: csv_path is relative, so that every event's
\* src_path differs from str(csv_path) and only streaming_loop calls the
\* handler; the file always holds a valid table; the client subscribes and
\* unsubscribes at any time, also from inside its callbacks
HubContents == {c \in ValidContents : c.rows # <<>>}

InitHub ==
  /\ portFree = [t \in Transports |-> TRUE]
  /\ fileVer = 0
  /\ fileContent \in HubContents
  /\ allValid = TRUE
  /\ srcPathMatches = FALSE
  /\ observing = FALSE
  /\ pendingEvents = 0
  /\ started = FALSE
  /\ is_running = FALSE
  /\ last_modified = NoneTime
  /\ last_data = <<>>
  /\ subscribers = <<>>
  /\ pc = [l \in Lanes |-> "off"]
  /\ current_modified = NoneTime
  /\ new_data = [l \in Lanes |-> <<>>]
  /\ st_mtime = [l \in Lanes |-> NoneTime]
  /\ changes = [l \in Lanes |-> NoChanges]
  /\ idx = [l \in Lanes |-> 0]
  /\ invoked = [l \in Lanes |-> <<>>]
  /\ startSubs = [l \in Lanes |-> <<>>]
  /\ subsChanged = [l \in Lanes |-> FALSE]
  /\ broadcasted = [l \in Lanes |-> FALSE]
  /\ calcPrev = [l \in Lanes |-> <<>>]
  /\ outcome = [l \in Lanes |-> "none"]
  /\ calcCount = [v \in 0..MaxVersions |-> 0]
  /\ registered = [cb \in Callbacks |-> 0]
  /\ hasRaised = {}
  /\ redis_client = FALSE
  /\ kafka_producer = FALSE
  /\ cacheWrite = [l \in Lanes |-> "none"]
  /\ logPublish = [l \in Lanes |-> "none"]
  /\ available = TRUE
  /\ failedAt = NoneTime
  /\ Unconnected

NextHub ==
  \/ \E c \in HubContents : Rewrite(c)
  \/ start_monitoring
  \/ \E cb \in Callbacks : subscribe(cb)
  \/ \E cb \in Callbacks : unsubscribe(cb)
  \/ PollStat
  \/ PollCompare
  \/ on_modified
  \/ \E l \in Lanes : HandlerStep(l)
  \/ \E l \in Lanes, u \in Callbacks \cup {NoCallback} : NotifyInvoke(l, u)

SpecHub == InitHub /\ [][NextHub]_vars

\* the change summary: the file holds the 5-row table or a one-row table,
\* csv_path is relative, nobody subscribes
CalcContents ==
  {[parses |-> TRUE, cols |-> AllColumns, rows |-> r] :
     r \in {SeedRows, <<50>>}}

InitCalc ==
  /\ portFree = [t \in Transports |-> TRUE]
  /\ fileContent \in CalcContents
  /\ allValid = TRUE
  /\ srcPathMatches = FALSE
  /\ Constructed

NextCalc ==
  \/ \E c \in CalcContents : Rewrite(c)
  \/ start_monitoring
  \/ stop_monitoring
  \/ PollStat
  \/ PollCompare
  \/ on_modified
  \/ \E l \in Lanes : HandlerStep(l)

SpecCalc == InitCalc /\ [][NextCalc]_vars

\* the downstream consumers: csv_path is relative, the file always holds a
\* valid table, the embedding program may set a cache client and an
\* event-log producer and register one callback before it starts the manager
InitSinks ==
  /\ portFree = [t \in Transports |-> TRUE]
  /\ fileContent \in HubContents
  /\ allValid = TRUE
  /\ srcPathMatches = FALSE
  /\ Constructed

NextSinks ==
  \/ \E c \in HubContents : Rewrite(c)
  \/ \E r, k \in BOOLEAN : configure_clients(r, k)
  \/ \E cb \in Callbacks : SubscribeBeforeStart(cb)
  \/ start_monitoring
  \/ stop_monitoring
  \/ PollStat
  \/ PollCompare
  \/ on_modified
  \/ \E l \in Lanes : HandlerStep(l)
  \/ \E l \in Lanes : NotifyInvoke(l, NoCallback)

SpecSinks == InitSinks /\ [][NextSinks]_vars

\* an unreliable source: csv_path is relative, the file always holds a
\* valid table when it can be read, nobody subscribes; the file becomes
\* unreadable and readable again at any time
InitIO ==
  /\ portFree = [t \in Transports |-> TRUE]
  /\ fileContent \in HubContents
  /\ allValid = TRUE
  /\ srcPathMatches = FALSE
  /\ Constructed

\* the steps of streaming_loop while every stat succeeds, and all of them
PollSteps ==
  \/ PollStat
  \/ PollCompare
  \/ HandlerStep("poll")

PollLane == PollSteps \/ PollBackoff

NextIO ==
  \/ \E c \in HubContents : Rewrite(c)
  \/ MakeUnavailable
  \/ MakeAvailable
  \/ start_monitoring
  \/ stop_monitoring
  \/ on_modified
  \/ PollLane

SpecIO == InitIO /\ [][NextIO]_vars

\* streaming_loop is a thread of its own: the scheduler runs it again and
\* again, and each of its steps (a stat, a read, a sleep) ends
FairSpecIO == SpecIO /\ WF_vars(PollLane)

\* the transports: csv_path is relative, the file holds one of two valid
\* tables, nobody subscribes; peers connect to the push transports, whose
\* ports are free or, for the WebSocket server, taken
PortChoices ==
  { [t \in Transports |-> TRUE],
    [t \in Transports |-> t # "websocket"] }

InitPush ==
  /\ portFree \in PortChoices
  /\ fileContent \in HubContents
  /\ allValid = TRUE
  /\ srcPathMatches = FALSE
  /\ Constructed

NextPush ==
  \/ \E c \in HubContents : Rewrite(c)
  \/ start_monitoring
  \/ stop_monitoring
  \/ on_modified
  \/ PollSteps
  \/ \E p \in Peers, t \in PushTransports : PeerConnect(p, t)
  \/ \E p \in Peers : PeerStep(p)

SpecPush == InitPush /\ [][NextPush]_vars

\* the request/response side: csv_path is relative, the file holds any
\* valid table, nobody subscribes; clients request GET /data and Socket.IO
\* clients connect and disconnect
InitServe ==
  /\ portFree = [t \in Transports |-> TRUE]
  /\ fileContent \in ValidContents
  /\ allValid = TRUE
  /\ srcPathMatches = FALSE
  /\ Constructed

NextServe ==
  \/ \E c \in ValidContents : Rewrite(c)
  \/ start_monitoring
  \/ stop_monitoring
  \/ on_modified
  \/ PollSteps
  \/ HttpGetData
  \/ \E c \in SioClients : SioConnect(c) \/ SioDisconnect(c)

SpecServe == InitServe /\ [][NextServe]_vars

\* readers: csv_path is absolute, so that both threads call the handler;
\* the file holds one of two valid tables, nobody subscribes; another
\* thread calls get_latest_data at any time
InitRead ==
  /\ portFree = [t \in Transports |-> TRUE]
  /\ fileContent \in HubContents
  /\ allValid = TRUE
  /\ srcPathMatches = TRUE
  /\ Constructed

NextRead ==
  \/ \E c \in HubContents : Rewrite(c)
  \/ start_monitoring
  \/ stop_monitoring
  \/ PollStat
  \/ PollCompare
  \/ on_modified
  \/ \E l \in Lanes : HandlerStep(l)
  \/ CallGetLatestData

SpecRead == InitRead /\ [][NextRead]_vars

\* restarts: csv_path is relative, the file holds one of two valid tables,
\* nobody subscribes; the main thread calls start_monitoring and
\* stop_monitoring in any order
NextRestart ==
  \/ \E c \in HubContents : Rewrite(c)
  \/ start_monitoring
  \/ start_monitoring_again
  \/ stop_monitoring
  \/ on_modified
  \/ PollSteps

SpecRestart == InitIO /\ [][NextRestart]_vars

\* one peer: as above with a single connection.  streaming_loop is a
\* thread and the push loop a coroutine of a running event loop: each is
\* scheduled again and again and each of its steps ends
NextPeer ==
  \/ \E c \in HubContents : Rewrite(c)
  \/ start_monitoring
  \/ stop_monitoring
  \/ on_modified
  \/ PollSteps
  \/ \E t \in PushTransports : PeerConnect("p1", t)
  \/ PeerStep("p1")

FairSpecPeer ==
  /\ InitPush
  /\ [][NextPeer]_vars
  /\ WF_vars(PollSteps)
  /\ WF_vars(PeerStep("p1"))

\* ================================================================ claims
\* the condition of streaming_loop's if, on the file as it is now
PollWouldTrigger == last_modified = NoneTime \/ fileVer > last_modified

\* nothing is left to do unless the file is rewritten again
Settled ==
  /\ is_running
  /\ pc["poll"] = "loop"
  /\ pc["watch"] = "wait"
  /\ pendingEvents = 0
  /\ ~PollWouldTrigger

CountOf(s, cb) == Cardinality({i \in 1..Len(s) : s[i] = cb})

\* C1: at most one execution of _handle_file_change is in progress at any
\* time, whatever the interleaving of on_modified and streaming_loop.
C1_SingleWriter ==
  Cardinality({l \in Lanes : pc[l] \in HandlerPcs}) <= 1

\* C2 as stated: the changes of an update carry low_stock and out_of_stock
\* counted over the previous snapshot S1.
C2_IndicatorsOverPrevious ==
  \A l \in Lanes :
    (changes[l].type = "update" /\ calcPrev[l] # <<>>) =>
      /\ changes[l].inventory_changes # <<>>
      /\ changes[l].inventory_changes[1].low_stock =
           Cardinality({i \in 1..Len(calcPrev[l][1].rows) :
                          calcPrev[l][1].rows[i] < 10})
      /\ changes[l].inventory_changes[1].out_of_stock =
           Cardinality({i \in 1..Len(calcPrev[l][1].rows) :
                          calcPrev[l][1].rows[i] = 0})

\* C2 as amended: changes computed while no snapshot is committed have type
\* initial_load; changes computed for S2 after S1 was committed have type
\* update, and their low_stock and out_of_stock count the rows of S2, the
\* new snapshot, with Inventory Level below 10 and equal to 0.
C2_IndicatorsOverNew ==
  \A l \in Lanes :
    changes[l].type # "none" =>
      LET S2 == new_data[l][1].rows IN
      IF calcPrev[l] = <<>>
      THEN changes[l] = [type |-> "initial_load", rows |-> Len(S2)]
      ELSE /\ changes[l].type = "update"
           /\ changes[l].total_rows = Len(S2)
           /\ changes[l].inventory_changes # <<>>
           /\ changes[l].inventory_changes[1].low_stock =
                Cardinality({i \in 1..Len(S2) : S2[i] < 10})
           /\ changes[l].inventory_changes[1].out_of_stock =
                Cardinality({i \in 1..Len(S2) : S2[i] = 0})

\* an update was computed for an S2 whose counts differ from those of S1
C2_Witness ==
  \E l \in Lanes :
    /\ changes[l].type = "update"
    /\ calcPrev[l] # <<>>
    /\ calcPrev[l][1].ver < new_data[l][1].ver
    /\ calcPrev[l][1].rows = <<50>>
    /\ new_data[l][1].rows = <<0, 5>>
    /\ changes[l].inventory_changes[1].low_stock = 2
    /\ changes[l].inventory_changes[1].out_of_stock = 1

\* C3: every version of the file is processed exactly once: never twice,
\* and once no work is left the version in the file has been processed.
C3_ExactlyOncePerVersion ==
  /\ \A v \in 0..MaxVersions : calcCount[v] <= 1
  /\ (Settled /\ IsValidContent(fileContent)) => calcCount[fileVer] = 1

\* C4: after finitely many valid rewrites last_data ends up as the content
\* of the final version: once no work is left, last_data is that content.
C4_NoLostUpdate ==
  (Settled /\ allValid) => last_data = <<read_csv(fileVer, fileContent)>>

\* C5: a load of a file that lacks an expected column reports a schema
\* mismatch and returns; neither step of that attempt changes last_data or
\* last_modified, invokes a subscriber or broadcasts.
C5_SchemaMismatchKeepsStore ==
  [][\A l \in Lanes :
       /\ (/\ pc[l] = "load"
           /\ pc'[l] # "load"
           /\ fileContent.parses
           /\ ~(AllColumns \subseteq fileContent.cols))
          => (/\ outcome'[l] = "schema_mismatch"
              /\ pc'[l] = "ret"
              /\ last_data' = last_data
              /\ last_modified' = last_modified
              /\ invoked'[l] = <<>>
              /\ ~broadcasted'[l])
       /\ (/\ pc[l] = "ret"
           /\ outcome[l] = "schema_mismatch"
           /\ pc'[l] # "ret")
          => (/\ pc'[l] \in {"loop", "wait"}
              /\ last_data' = last_data
              /\ last_modified' = last_modified
              /\ invoked[l] = <<>>
              /\ invoked'[l] = <<>>
              /\ ~broadcasted[l])
    ]_vars

\* a file without Price was rejected while a snapshot was already committed
C5_Witness ==
  \E l \in Lanes :
    /\ pc[l] = "ret"
    /\ outcome[l] = "schema_mismatch"
    /\ "Price" \notin fileContent.cols
    /\ last_data # <<>>
    /\ subscribers # <<>>

\* C6: a load whose parse fails aborts without raising, keeps last_data and
\* last_modified, notifies nobody, and leaves the polling loop's condition
\* true, so that a later poll loads the file again.
C6_ParseFailureRetried ==
  [][\A l \in Lanes :
       (pc[l] = "load" /\ pc'[l] # "load" /\ ~fileContent.parses)
         => (/\ outcome'[l] = "parse_error"
             /\ pc'[l] = "ret"
             /\ last_data' = last_data
             /\ last_modified' = last_modified
             /\ invoked'[l] = <<>>
             /\ ~broadcasted'[l]
             /\ PollWouldTrigger')
    ]_vars

\* C7: when a dispatch is over and the list was not modified meanwhile,
\* every callback registered at its start was invoked, in order, raising
\* or not, each with the run's (data, changes) pair; a run that has
\* committed goes on to _broadcast_data, so no exception left the dispatch.
C7_RaiseDoesNotBlockOthers ==
  \A l \in Lanes :
    /\ (pc[l] \in {"broadcast", "ret"} /\ new_data[l] # <<>>
        /\ ~subsChanged[l])
       => (/\ Len(invoked[l]) = Len(startSubs[l])
           /\ \A i \in 1..Len(invoked[l]) :
                /\ invoked[l][i].cb = startSubs[l][i]
                /\ invoked[l][i].data = new_data[l]
                /\ invoked[l][i].changes = changes[l])
    /\ (pc[l] = "ret" /\ new_data[l] # <<>>) => broadcasted[l]

\* a dispatch is over in which a callback raised and a later one was called
C7_Witness ==
  \E l \in Lanes :
    /\ pc[l] = "broadcast"
    /\ ~subsChanged[l]
    /\ Len(invoked[l]) = 2
    /\ invoked[l][1].raised
    /\ ~invoked[l][2].raised
    /\ invoked[l][2].cb # invoked[l][1].cb

\* C8: a callback stays in subscribers as often as it was subscribed and not
\* yet unsubscribed, also after it has raised; and a dispatch that is over,
\* with the list unmodified meanwhile, has invoked every always-raising
\* callback that was in the list.
C8_RaisingSubscriberStays ==
  /\ \A cb \in Callbacks : CountOf(subscribers, cb) = registered[cb]
  /\ \A l \in Lanes :
       (pc[l] = "broadcast" /\ ~subsChanged[l]) =>
         \A cb \in AlwaysRaises :
           cb \in Range(startSubs[l]) =>
             \E i \in 1..Len(invoked[l]) :
               invoked[l][i].cb = cb /\ invoked[l][i].raised

\* the second dispatch has invoked a callback that raised in the first
C8_Witness ==
  \E l \in Lanes :
    /\ pc[l] = "notify"
    /\ new_data[l][1].ver > 0
    /\ calcCount[0] > 0
    /\ \E i \in 1..Len(invoked[l]) :
         /\ invoked[l][i].raised
         /\ invoked[l][i].cb \in hasRaised
         /\ invoked[l][i].cb \in Range(subscribers)

\* C9: in one dispatch no callback is invoked more than once.
C9_AtMostOncePerDispatch ==
  \A l \in Lanes :
    \A i, j \in 1..Len(invoked[l]) :
      i # j => invoked[l][i].cb # invoked[l][j].cb

\* C10: once a snapshot is committed, get_latest_data never returns a
\* snapshot with zero rows.
C10_NeverZeroRows ==
  get_latest_data # <<>> => Len(get_latest_data[1].rows) > 0

\* C11 as stated: for the source of 5 rows with Inventory Level 0, 5, 50, 0,
\* 20, the changes computed for the first commit carry a low-stock
\* indicator equal to 3 and an out-of-stock indicator equal to 2.
C11_FirstCommitCarriesIndicators ==
  \A l \in Lanes :
    (/\ changes[l].type # "none"
     /\ calcPrev[l] = <<>>
     /\ new_data[l][1].rows = <<0, 5, 50, 0, 20>>)
    => (/\ "inventory_changes" \in DOMAIN changes[l]
        /\ changes[l].inventory_changes # <<>>
        /\ changes[l].inventory_changes[1].low_stock = 3
        /\ changes[l].inventory_changes[1].out_of_stock = 2)

\* C11 as amended: for that source the changes of the first commit are
\* {type: initial_load, rows: 5} and carry no indicator; the changes of a
\* commit of that source after an earlier commit have type update, 5 rows,
\* a low-stock indicator equal to 3 and an out-of-stock indicator equal to 2.
C11_SeedIndicators ==
  \A l \in Lanes :
    (changes[l].type # "none" /\ new_data[l][1].rows = <<0, 5, 50, 0, 20>>)
    => IF calcPrev[l] = <<>>
       THEN /\ changes[l] = [type |-> "initial_load", rows |-> 5]
            /\ "inventory_changes" \notin DOMAIN changes[l]
       ELSE /\ changes[l].type = "update"
            /\ changes[l].total_rows = 5
            /\ changes[l].inventory_changes =
                 << [low_stock |-> 3, out_of_stock |-> 2] >>

\* the first commit of the 5-row source is about to be made
C11_Witness ==
  \E l \in Lanes :
    /\ pc[l] = "commit"
    /\ last_data = <<>>
    /\ calcPrev[l] = <<>>
    /\ new_data[l][1].rows = <<0, 5, 50, 0, 20>>
    /\ changes[l].type = "initial_load"

\* C12: when _broadcast_data has run with a producer set and the cache write
\* raised, the event-log publish of that run was still made; and a run in
\* which a subscriber raised has gone through _broadcast_data.
C12_ConsumersIsolated ==
  \A l \in Lanes :
    /\ (pc[l] = "ret" /\ broadcasted[l] /\ kafka_producer
        /\ cacheWrite[l] = "raised")
       => logPublish[l] \in CallOutcomes
    /\ (/\ pc[l] = "ret"
        /\ new_data[l] # <<>>
        /\ \E i \in 1..Len(invoked[l]) : invoked[l][i].raised)
       => broadcasted[l]

\* C13: every step a run of _handle_file_change takes after it has assigned
\* last_data (a callback that returns or raises, the end of the dispatch,
\* _broadcast_data with whatever its calls raise, the return) leaves
\* last_data and last_modified as they are.
C13_NoRollback ==
  [][\A l \in Lanes :
       (/\ pc[l] \in {"notify", "broadcast", "ret"}
        /\ new_data[l] # <<>>
        /\ (pc'[l] # pc[l] \/ idx'[l] # idx[l]))
       => (last_data' = last_data /\ last_modified' = last_modified)
    ]_vars

\* a run is over in which a subscriber raised and the cache write raised,
\* and the store still holds what the run committed
C13_Witness ==
  \E l \in Lanes :
    /\ pc[l] = "ret"
    /\ new_data[l] # <<>>
    /\ \E i \in 1..Len(invoked[l]) : invoked[l][i].raised
    /\ cacheWrite[l] = "raised"
    /\ last_data = new_data[l]
    /\ last_modified >= new_data[l][1].ver

\* the version the file holds now has been loaded and committed
FileLoaded == last_data # <<>> /\ last_data[1].ver = fileVer

\* C14: streaming_loop calls _handle_file_change exactly when no marker is
\* recorded or the mtime it read is greater than the recorded marker; and
\* while the file is as it was at a successful load, the loop does not call
\* the handler again and no run begins a further dispatch.
C14_NoProcessingOfUnmodifiedFile ==
  [][/\ (pc["poll"] = "compare" /\ pc'["poll"] # "compare")
        => /\ (pc'["poll"] = "load")
                <=> (last_modified = NoneTime
                     \/ current_modified > last_modified)
           /\ (pc'["poll"] = "load") => ~FileLoaded
     /\ \A l \in Lanes :
          (pc[l] = "commit" /\ pc'[l] = "notify") => ~FileLoaded
    ]_vars

\* C15: a stat that raises in streaming_loop changes neither last_data nor
\* last_modified and does not end the loop, which leaves only once
\* is_running is false; after the sleep the loop is back at its test; and
\* after such a failure, a valid version that the file holds while the loop
\* is about to poll with is_running true is committed, unless the file is
\* rewritten or unreadable again or the manager is stopped before.
C15_PollSurvivesReadFailure ==
  /\ [][(pc["poll"] = "loop" /\ is_running /\ ~available
         /\ pc'["poll"] # "loop")
        => (/\ pc'["poll"] = "backoff"
            /\ last_data' = last_data
            /\ last_modified' = last_modified)]_vars
  /\ [](pc["poll"] = "exited" => ~is_running)
  /\ (pc["poll"] = "backoff") ~> (pc["poll"] = "loop")
  /\ \A v \in 0..MaxVersions :
       (/\ failedAt # NoneTime
        /\ pc["poll"] \in {"backoff", "loop"}
        /\ is_running
        /\ available
        /\ IsValidContent(fileContent)
        /\ fileVer = v
        /\ PollWouldTrigger)
       ~> (\/ last_data # <<>> /\ last_data[1].ver = v
           \/ fileVer # v
           \/ ~available
           \/ ~is_running)

\* after a stat of the loop raised, a later version of the file is committed
C15_Witness ==
  /\ failedAt # NoneTime
  /\ is_running
  /\ last_data # <<>>
  /\ last_data[1].ver > failedAt
  /\ last_data[1].ver = fileVer

\* a step of one of the manager's threads or coroutines
LaneStep ==
  \/ PollLane
  \/ on_modified
  \/ HandlerStep("watch")
  \/ \E p \in Peers : PeerStep(p)

\* C16: once stop_monitoring has set is_running to false and every lane has
\* run as far as it can, the polling loop has left, no push loop is active,
\* the observer is stopped and no server is listening any more.
C16_StoppedReleasesAll ==
  (started /\ ~is_running /\ ~ENABLED LaneStep)
  => (/\ pc["poll"] = "exited"
      /\ \A p \in Peers : peerPc[p] \notin ActivePcs
      /\ ~observing
      /\ \A t \in Transports : serverState[t] # "listening")

\* C17: a response of GET /data is the error object exactly when nothing has
\* been committed (last_data is None); after a commit it holds a timestamp
\* and one record per row of the most recently committed snapshot.
C17_GetDataServesLastCommit ==
  [][httpResponse' # httpResponse =>
       LET r == httpResponse'[1] IN
         /\ (r = [error |-> "No data available"]) <=> (lastCommitted = <<>>)
         /\ (lastCommitted = <<>>) <=> (last_data = <<>>)
         /\ lastCommitted # <<>> =>
              /\ DOMAIN r = {"timestamp", "data"}
              /\ Len(r.data) = Len(lastCommitted[1].rows)
              /\ \A i \in 1..Len(r.data) :
                   /\ r.data[i].level = lastCommitted[1].rows[i]
                   /\ r.data[i].columns = lastCommitted[1].cols
    ]_vars

\* after the second commit GET /data has answered with its rows
C17_Witness ==
  /\ httpResponse # <<>>
  /\ lastCommitted # <<>>
  /\ lastCommitted[1].ver > 0
  /\ firstCommitted[1].rows # lastCommitted[1].rows
  /\ "data" \in DOMAIN httpResponse[1]
  /\ Len(httpResponse[1].data) = Len(lastCommitted[1].rows)
  /\ \A i \in 1..Len(lastCommitted[1].rows) :
       httpResponse[1].data[i].level = lastCommitted[1].rows[i]

\* C19: when a run has gone through _broadcast_data, the Socket.IO server
\* has emitted the payload of the run's snapshot to every client connected
\* at that time.
C19_SocketIOBroadcastsCommit ==
  [][\A l \in Lanes :
       (pc[l] = "broadcast" /\ pc'[l] = "ret")
       => \A c \in sioConnected :
            [sid |-> c, payload |-> to_json(new_data[l][1])] \in sioEmitted'
    ]_vars

\* C18 as stated, for a running manager: a peer that connects after a
\* commit gets the last committed snapshot as its first message, before any
\* wait; the first message of a peer that connected before any commit is
\* the first committed snapshot; and a connected peer with a snapshot
\* committed gets a message, unless its loop ends first.
C18_PeerGetsFirstCommit ==
  /\ [][\A p \in Peers :
          /\ (/\ peerPc[p] = "first" /\ peerPc'[p] # "first"
              /\ is_running /\ last_data # <<>>)
             => \/ peerPc'[p] = "failed"
                \/ peerMsg'[p] = <<to_json(lastCommitted[1])>>
          /\ (peerEarly[p] /\ peerMsg[p] = <<>> /\ peerMsg'[p] # <<>>)
             => peerMsg'[p] = <<to_json(firstCommitted[1])>>
       ]_vars
  /\ \A p \in Peers :
       (peerPc[p] \in ActivePcs /\ last_data # <<>>)
       ~> (peerMsg[p] # <<>> \/ peerPc[p] \in {"ended", "failed"})

\* C18 as amended: while is_running is true, a peer that connects after a
\* commit gets the last committed snapshot as its first message, before any
\* wait, unless that send fails; the first message of any peer is the
\* snapshot committed last at the time of the send, which for a peer that
\* connected before any commit may be a later one than the first; and a
\* connected peer with a snapshot committed gets a message, unless its send
\* fails or the manager is stopped first.
C18_PeerGetsCurrentCommit ==
  /\ [][\A p \in Peers :
          /\ (/\ peerPc[p] = "first" /\ peerPc'[p] # "first"
              /\ is_running /\ last_data # <<>>)
             => \/ peerPc'[p] = "failed"
                \/ /\ peerMsg'[p] = <<to_json(lastCommitted[1])>>
                   /\ peerPc'[p] = "sleep"
          /\ (peerMsg[p] = <<>> /\ peerMsg'[p] # <<>>)
             => (is_running /\ peerMsg'[p] = <<to_json(lastCommitted[1])>>)
       ]_vars
  /\ \A p \in Peers :
       (peerPc[p] \in ActivePcs /\ last_data # <<>>)
       ~> (\/ peerMsg[p] # <<>>
           \/ peerPc[p] = "failed"
           \/ ~is_running)

\* a peer that connected before any commit has got, as its first message,
\* the second snapshot committed
C18_Witness ==
  \E p \in Peers :
    /\ peerEarly[p]
    /\ peerPc[p] = "sleep"
    /\ firstCommitted # <<>>
    /\ lastCommitted[1].rows # firstCommitted[1].rows
    /\ peerMsg[p] = <<to_json(lastCommitted[1])>>

\* C20: the step in which a peer's send fails ends that peer's push loop and
\* nothing else: every other peer's loop and last message, the servers, the
\* store and both handler lanes are as before; and a transport on which a
\* peer has failed goes on listening.
C20_PeerFailureIsLocal ==
  /\ [][\A p \in Peers :
          (peerPc[p] \in {"first", "loop"} /\ peerPc'[p] = "failed")
          => /\ \A q \in Peers \ {p} :
                  /\ peerPc'[q] = peerPc[q]
                  /\ peerMsg'[q] = peerMsg[q]
             /\ serverState' = serverState
             /\ is_running' = is_running
             /\ last_data' = last_data
             /\ last_modified' = last_modified
             /\ pc' = pc
       ]_vars
  /\ [](\A p \in Peers :
          peerPc[p] = "failed" => serverState[peerTransport[p]] = "listening")

\* a peer's send has failed, and afterwards another peer of the same
\* transport was sent the snapshot of a later commit
C20_Witness ==
  \E p, q \in Peers :
    /\ p # q
    /\ peerTransport[p] = peerTransport[q]
    /\ peerPc[p] = "failed"
    /\ peerPc[q] = "sleep"
    /\ sentAfterFailure
    /\ lastCommitted[1].ver > 0
    /\ peerMsg[q] = <<to_json(lastCommitted[1])>>
    /\ peerMsg[p] # peerMsg[q]

\* C21: a start_monitoring call made while the file exists returns True and
\* starts the manager whatever the ports are; from then on the polling loop
\* is started, a transport is failed exactly when its port was taken and is
\* listening otherwise, a failed transport never leaves that state, and no
\* peer is ever connected to a failed transport.
C21_BindFailureIsLocal ==
  /\ [][(~started /\ available /\ startReturned' # startReturned)
         => (startReturned' = <<TRUE>> /\ started')]_vars
  /\ [](started =>
          /\ startReturned = <<TRUE>>
          /\ pc["poll"] # "off"
          /\ \A t \in Transports :
               serverState[t] = IF portFree[t] THEN "listening" ELSE "failed")
  /\ [][\A t \in Transports :
          serverState[t] = "failed" => serverState'[t] = "failed"]_vars
  /\ [](\A p \in Peers :
          peerPc[p] # "none" => serverState[peerTransport[p]] # "failed")

\* the WebSocket server could not bind, and a peer of /ws/data has been
\* sent the snapshot the polling loop committed after a rewrite
C21_Witness ==
  /\ startReturned = <<TRUE>>
  /\ serverState["websocket"] = "failed"
  /\ serverState["fastapi"] = "listening"
  /\ serverState["socketio"] = "listening"
  /\ lastCommitted # <<>>
  /\ lastCommitted[1].ver > 0
  /\ \E p \in Peers :
       /\ peerTransport[p] = "fastapi"
       /\ peerMsg[p] = <<to_json(lastCommitted[1])>>

\* C22: a callback is invoked only while it is subscribed: a dispatch
\* invokes only callbacks it takes from the list, a callback enters the list
\* only by a subscribe call for it, and when an unsubscribe call for it has
\* returned it is not in the list, so that no dispatch starting afterwards
\* invokes it.
C22_InvokedOnlyWhileSubscribed ==
  [][/\ \A l \in Lanes :
          Len(invoked'[l]) > Len(invoked[l])
            => /\ invoked'[l][Len(invoked'[l])].cb \in Range(subscribers)
               /\ registered[invoked'[l][Len(invoked'[l])].cb] > 0
     /\ \A cb \in Callbacks :
          /\ (cb \in Range(subscribers') /\ cb \notin Range(subscribers))
               => registered'[cb] > registered[cb]
          /\ registered'[cb] < registered[cb]
               => cb \notin Range(subscribers')
    ]_vars

\* C23: get_latest_data, called at any point of any run of the handler,
\* returns the snapshot committed last before the call, whole (None before
\* the first commit): with a commit pending that is the previous snapshot,
\* and once that commit's assignment has run it is the new one.
C23_ReadIsCommittedSnapshot ==
  [][readResult' # readResult
       => /\ readResult' = <<lastCommitted>>
          /\ \A l \in Lanes :
               (pc[l] = "notify" /\ lastCommitted[1].ver = new_data[l][1].ver)
                 => readResult' = <<new_data[l]>>
    ]_vars

\* a read made while a run is about to commit returned the previous
\* snapshot, which is not the one being committed
C23_Witness ==
  \E l \in Lanes :
    /\ pc[l] = "commit"
    /\ readResult # <<>>
    /\ readResult[1] # <<>>
    /\ readResult[1] = lastCommitted
    /\ readResult[1] # new_data[l]
    /\ readResult[1][1].rows # new_data[l][1].rows

\* C24: at most one dispatch delivers changes of type initial_load, and it
\* is the dispatch of the first commit: the two threads never both deliver
\* one, and the snapshot delivered with one is the first committed.
C24_SingleInitialLoad ==
  /\ Cardinality({l \in Lanes :
                    \E i \in 1..Len(invoked[l]) :
                      invoked[l][i].changes.type = "initial_load"}) <= 1
  /\ \A l \in Lanes :
       \A i \in 1..Len(invoked[l]) :
         invoked[l][i].changes.type = "initial_load"
           => invoked[l][i].data = firstCommitted

\* C25: when a callback is invoked with snapshot S, S is installed as
\* last_data, and get_latest_data called inside that callback returns S.
C25_CallbackSeesItsSnapshot ==
  [][\A l \in Lanes :
       Len(invoked'[l]) > Len(invoked[l])
         => /\ invoked'[l][Len(invoked'[l])].data = new_data[l]
            /\ lastCommitted # <<>>
            /\ get_latest_data = invoked'[l][Len(invoked'[l])].data
    ]_vars

\* C26: once set, last_modified never decreases: every step that assigns
\* it stores a value greater than or equal to the one it replaces.
C26_MarkerNeverDecreases ==
  [][last_modified' >= last_modified]_vars

\* C27: when a dispatch is over, every callback that was in the list when
\* it began and is in the list now was invoked exactly once in it, also
\* when callbacks called unsubscribe while it ran (each callback is taken
\* as registered once when the dispatch begins).
C27_NoSubscriberSkipped ==
  \A l \in Lanes :
    (/\ pc[l] = "broadcast"
     /\ \A cb \in Callbacks : CountOf(startSubs[l], cb) <= 1)
    => \A cb \in Range(startSubs[l]) \cap Range(subscribers) :
         Cardinality({i \in 1..Len(invoked[l]) : invoked[l][i].cb = cb}) = 1

\* C28: a start_monitoring call made while the source file does not exist
\* returns False and changes nothing else; while False is the last value
\* returned, is_running is False, the observer is not started, no server
\* is started and no polling loop runs.
C28_StartWithoutFileChangesNothing ==
  /\ [][(~is_running /\ ~available /\ startReturned' # startReturned)
         => /\ startReturned' = <<FALSE>>
            /\ UNCHANGED << started, is_running, observing, pendingEvents,
                            pc, loopThreads, serverVars, last_modified,
                            last_data, subscribers >>]_vars
  /\ [](startReturned = <<FALSE>>
          => /\ ~is_running
             /\ ~observing
             /\ loopThreads = 0
             /\ \A l \in Lanes : pc[l] = "off"
             /\ \A t \in Transports : serverState[t] = "off")

\* start_monitoring has returned False for a file that is still missing
C28_Witness ==
  /\ startReturned = <<FALSE>>
  /\ ~available
  /\ ~started

\* C29: whatever start_monitoring and stop_monitoring calls are made, at
\* most one streaming_loop thread is alive at any time.
C29_AtMostOnePollingLoop ==
  loopThreads <= 1

\* C30: get_server_status reports a transport as running only if its server
\* has bound its port and is serving, and reports none after
\* stop_monitoring.
C30_StatusReportsServingOnly ==
  \A t \in Transports :
    get_server_status[t] => (serverState[t] = "listening" /\ is_running)

====
